---- MODULE Spec2Model ----
(***************************************************************************)
(* Construction Site DeepWiki (streamlit_app.py): the session state and    *)
(* page routing of the Streamlit script, its action logger, and the        *)
(* table-of-contents extractor.                                            *)
(*                                                                         *)
(* A Python str is modelled as a sequence of one-character strings.        *)
(***************************************************************************)
EXTENDS Integers, Sequences, FiniteSets, TLC

VARIABLES
    current_page,        \* st.session_state.current_page
    current_site,        \* st.session_state.current_site  ("None" when None)
    current_section,     \* st.session_state.current_section ("None" when None)
    chat_history,        \* st.session_state.chat_history (a dict, as a set of keys)
    logs,                \* st.session_state.logs
    question_answer_id,  \* st.session_state.question_answer_id ("None" when None)
    current_question,    \* st.session_state.current_question ("unset" until assigned)
    session_id,          \* st.session_state.session_id ("unset" until assigned)
    CONSTRUCTION_SITES,  \* the module-level dict of the running script
    sink,                \* records written through the Python logger
    now,                 \* the clock read by datetime.now()
    rendered,            \* keys of the buttons the last script run put on the page
    error,               \* exception that ended the last script run ("none" if none)
    shown,               \* what the last script run displayed as page body
    event,               \* the user event that triggered the last script run
    events,              \* number of user events handled so far
    qa_issued,           \* identifiers given to earlier questions of the session
    feed,                \* logger driver: the (action, level) pairs it cycles through
    markdown_content,    \* extractor driver: the argument of extract_table_of_contents
    toc,                 \* extractor driver: the value returned
    pc                   \* extractor driver: "ready" before the call, "done" after

vars == << current_page, current_site, current_section, chat_history, logs,
           question_answer_id, current_question, session_id, CONSTRUCTION_SITES,
           sink, now, rendered, error, shown, event, events, qa_issued,
           feed, markdown_content, toc, pc >>

navVars == << current_page, current_site, current_section, chat_history,
              question_answer_id, current_question, session_id,
              CONSTRUCTION_SITES, rendered, error, shown, event, events,
              qa_issued >>

logVars == << logs, sink, now >>

tocVars == << markdown_content, toc, pc >>

(***************************************************************************)
(* Bounds of the model.                                                    *)
(***************************************************************************)
MaxDocLen == 4       \* longest enumerated markdown string
MaxLogCalls == 150   \* log_action calls issued by the logger driver
LogPeriod == 2       \* length of the (action, level) pattern the driver repeats
MaxEvents == 5       \* user events in one session
NumHex == 2          \* distinct values of uuid.uuid4().hex[:8] considered

(***************************************************************************)
(* Python str operations used by the script.                               *)
(***************************************************************************)
UpperLower ==
    { <<"A", "a">>, <<"B", "b">>, <<"C", "c">>, <<"D", "d">>, <<"F", "f">>,
      <<"L", "l">>, <<"O", "o">>, <<"Z", "z">> }

\* str.lower() on one character
LowerChar(c) ==
    IF \E p \in UpperLower : p[1] = c
    THEN (CHOOSE p \in UpperLower : p[1] = c)[2]
    ELSE c

\* str.lower()
Lower(s) == [i \in 1..Len(s) |-> LowerChar(s[i])]

\* characters str.strip() with no argument removes
Whitespace == { " ", "\t", "\n", "\r" }

RECURSIVE LStrip(_, _)
\* str.lstrip(chars)
LStrip(s, chars) ==
    IF s # << >> /\ Head(s) \in chars THEN LStrip(Tail(s), chars) ELSE s

RECURSIVE RStrip(_, _)
\* str.rstrip(chars)
RStrip(s, chars) ==
    IF s # << >> /\ s[Len(s)] \in chars
    THEN RStrip(SubSeq(s, 1, Len(s) - 1), chars)
    ELSE s

\* str.strip()
Strip(s) == RStrip(LStrip(s, Whitespace), Whitespace)

RECURSIVE Replace(_, _, _)
\* str.replace(old, new) for a one-character old
Replace(s, old, new) ==
    IF s = << >> THEN << >>
    ELSE (IF Head(s) = old THEN new ELSE << Head(s) >>)
         \o Replace(Tail(s), old, new)

RECURSIVE Split(_, _)
\* str.split(sep) for a one-character sep
Split(s, sep) ==
    IF \E i \in 1..Len(s) : s[i] = sep
    THEN LET i == CHOOSE k \in 1..Len(s) :
                      s[k] = sep /\ \A j \in 1..(k - 1) : s[j] # sep
         IN  << SubSeq(s, 1, i - 1) >> \o Split(SubSeq(s, i + 1, Len(s)), sep)
    ELSE << s >>

\* sub in s
Contains(s, sub) ==
    \E i \in 0..(Len(s) - Len(sub)) : SubSeq(s, i + 1, i + Len(sub)) = sub

\* str.startswith(c) for a one-character c
StartsWith(s, c) == s # << >> /\ s[1] = c

(***************************************************************************)
(* extract_table_of_contents                                               *)
(***************************************************************************)
\* level = len(line) - len(line.lstrip('#'))
HeadingLevel(line) == Len(line) - Len(LStrip(line, {"#"}))

\* title = line.lstrip('# ').strip()
HeadingTitle(line) == Strip(LStrip(line, {"#", " "}))

\* anchor = title.lower().replace(' ', '-').replace('&', '').replace(',', '')
AnchorKeepAmp(title) ==
    Replace(Replace(Lower(title), " ", <<"-">>), ",", << >>)
Anchor(title) ==
    Replace(Replace(Replace(Lower(title), " ", <<"-">>), "&", << >>), ",", << >>)

RECURSIVE TocOfLines(_)
\* the for loop over lines, appending (title, anchor, level) for heading lines
TocOfLinesAll(lines) ==
    [i \in 1..Len(lines) |->
        << HeadingTitle(lines[i]), Anchor(HeadingTitle(lines[i])),
           HeadingLevel(lines[i]) >>]
TocOfLines(lines) ==
    IF lines = << >> THEN << >>
    ELSE (IF StartsWith(Head(lines), "#")
          THEN << << HeadingTitle(Head(lines)),
                     Anchor(HeadingTitle(Head(lines))),
                     HeadingLevel(Head(lines)) >> >>
          ELSE << >>)
         \o TocOfLines(Tail(lines))

extract_table_of_contents(md) == TocOfLines(Split(md, "\n"))

(***************************************************************************)
(* Static data of the script.                                              *)
(***************************************************************************)
\* the dict literal assigned to CONSTRUCTION_SITES when the script executes
StaticSites ==
    [ s \in {"harbor_bridge", "office_complex"} |->
        IF s = "harbor_bridge"
        THEN [ name |-> "Harbor Bridge Renovation",
               sections |-> << "overview", "structural_plans", "safety_protocols",
                               "material_specs", "environmental" >> ]
        ELSE [ name |-> "Green Office Complex",
               sections |-> << "overview", "foundation", "hvac",
                               "environmental", "energy" >> ] ]

\* SAMPLE_SECTIONS.get(site_id, {}): the section keys that have markdown text
SampleSectionsOf(site_id) ==
    IF site_id = "harbor_bridge" THEN {"overview", "structural_plans"} ELSE {}

\* MOCK_SOURCES.get(section, []): the documents cited for a section
MockSourcesOf(section) ==
    IF section = "structural_plans"
    THEN << "Structural_Engineering_Report.pdf", "Foundation_Analysis.pdf",
            "Material_Specifications.pdf" >>
    ELSE << >>

\* the sections dict given to a project created from uploads
ProjectSections == << "overview", "structural", "safety", "materials" >>

\* values of uuid.uuid4().hex[:8]
Hex == 1..NumHex
HexText == << "0000000a", "0000000b", "0000000c", "0000000d" >>
\* f"session_{uuid.uuid4().hex[:8]}"
SessionIdText == << "session_0000000a", "session_0000000b",
                    "session_0000000c", "session_0000000d" >>
SessionIdOf(h) == SessionIdText[h]
\* f"project_{uuid.uuid4().hex[:8]}"
ProjectIdText == << "project_0000000a", "project_0000000b",
                    "project_0000000c", "project_0000000d" >>
ProjectIdOf(h) == ProjectIdText[h]
\* f"qa_{uuid.uuid4().hex[:8]}"
QaIdText == << "qa_0000000a", "qa_0000000b", "qa_0000000c", "qa_0000000d" >>
QaIdOf(h) == QaIdText[h]

(***************************************************************************)
(* log_action                                                              *)
(***************************************************************************)
\* severities of the logging taxonomy
Levels == { "INFO", "WARNING", "ERROR" }

\* "Keep only last 100 logs in memory"
LogCap == 100

\* st.session_state.logs.append(log_entry), then the cut to the last 100
LogBufferNoCut(buf, entry) == Append(buf, entry)
LogBuffer(buf, entry) ==
    LET appended == Append(buf, entry)
    IN  IF Len(appended) > LogCap
        THEN SubSeq(appended, Len(appended) - LogCap + 1, Len(appended))
        ELSE appended

\* logger.info / logger.warning / logger.error of "<action> | <json details>"
SinkWriteInfoOnly(out, action, details, level) ==
    IF level = "INFO"
    THEN Append(out, [ level |-> level, action |-> action, details |-> details ])
    ELSE out
SinkWrite(out, action, details, level) ==
    IF level \in {"INFO", "WARNING", "ERROR"}
    THEN Append(out, [ level |-> level, action |-> action, details |-> details ])
    ELSE out

\* log_action(action, details, level) on the session S
log_action(S, action, details, level) ==
    LET log_entry ==
            [ timestamp |-> S.now,
              action |-> action,
              details |-> details,
              level |-> level,
              session_id |-> IF S.session_id = "unset" THEN "unknown"
                             ELSE S.session_id ]
    IN  [ S EXCEPT !.logs = LogBuffer(S.logs, log_entry),
                   !.sink = SinkWrite(S.sink, action, details, level),
                   !.now = S.now + 1 ]

(***************************************************************************)
(* One execution of the script.  S is the session: st.session_state, the   *)
(* script's globals, the logger's output and what the run has put on the   *)
(* page so far.  S.stop says how the run ended: "no" while it is running   *)
(* or when it reached the end, "rerun" after st.rerun(), or the exception  *)
(* that was raised.  S.event is the widget input of the run.               *)
(***************************************************************************)
NoKey == << >>
UnsetQuestion == << "unset" >>
Blank == [ body |-> "none", answer |-> [ text |-> "none" ], sources |-> << >> ]

\* the remaining statements run only while nothing has ended the run
Then(S, F(_)) == IF S.stop # "no" THEN S ELSE F(S)

\* st.button(...) puts the button on the page
Button(S, key) == [ S EXCEPT !.rendered = S.rendered \cup { key } ]
\* ... and returns True in the run its click triggered
Clicked(S, key) == S.event.key = key

\* navigate_to_site(site_id)
navigate_to_site_keep_section(S, site_id) ==
    LET L == log_action(S, "navigate_to_site",
                 [ site_id |-> site_id, previous_page |-> S.current_page ], "INFO")
    IN  [ L EXCEPT !.current_site = site_id,
                   !.current_page = "site_detail" ]
navigate_to_site(S, site_id) ==
    LET L == log_action(S, "navigate_to_site",
                 [ site_id |-> site_id, previous_page |-> S.current_page ], "INFO")
    IN  [ L EXCEPT !.current_site = site_id,
                   !.current_section = "overview",
                   !.current_page = "site_detail" ]

\* navigate_to_section(section)
navigate_to_section_reset_qa(S, section) ==
    LET L == log_action(S, "navigate_to_section",
                 [ section |-> section, site_id |-> S.current_site,
                   previous_section |-> S.current_section ], "INFO")
    IN  [ L EXCEPT !.current_section = section,
                   !.question_answer_id = "None" ]
navigate_to_section(S, section) ==
    LET L == log_action(S, "navigate_to_section",
                 [ section |-> section, site_id |-> S.current_site,
                   previous_section |-> S.current_section ], "INFO")
    IN  [ L EXCEPT !.current_section = section ]

\* which answer branch of mock_rag_query the query takes
AnswerKindCaseSensitive(query) ==
    IF Contains(query, << "l", "o", "a", "d" >>)
       \/ Contains(query, << "c", "a", "p", "a", "c", "i", "t", "y" >>)
    THEN "load"
    ELSE IF Contains(query, << "s", "a", "f", "e", "t", "y" >>)
    THEN "safety"
    ELSE "generic"
AnswerKind(query) ==
    IF Contains(Lower(query), << "l", "o", "a", "d" >>)
       \/ Contains(Lower(query), << "c", "a", "p", "a", "c", "i", "t", "y" >>)
    THEN "load"
    ELSE IF Contains(Lower(query), << "s", "a", "f", "e", "t", "y" >>)
    THEN "safety"
    ELSE "generic"

\* the response string: one of two fixed texts, or the f-string that quotes the
\* section, the site's name and the query
Response(kind, sites, site_id, section, query) ==
    IF kind = "load" THEN [ text |-> "load specification answer" ]
    ELSE IF kind = "safety" THEN [ text |-> "safety procedures answer" ]
    ELSE [ text |-> "generic answer", section |-> section,
           site_name |-> sites[site_id].name, query |-> query ]

\* mock_rag_query(site_id, section, query); the value returned is left in S.shown
mock_rag_query_no_response_log(S, site_id, section, query) ==
    LET L == log_action(S, "rag_query",
                 [ site_id |-> site_id, section |-> section, query |-> query,
                   query_length |-> Len(query) ], "INFO")
    IN  [ L EXCEPT !.shown = [ body |-> "answer",
                               answer |-> [ text |-> "load specification answer" ],
                               sources |-> MockSourcesOf(section) ] ]
mock_rag_query(S, site_id, section, query) ==
    LET L == log_action(S, "rag_query",
                 [ site_id |-> site_id, section |-> section, query |-> query,
                   query_length |-> Len(query) ], "INFO")
        kind == AnswerKind(query)
        sources ==
            IF kind = "load" THEN MockSourcesOf(section)
            ELSE IF kind = "safety" THEN << "Safety_Management_Plan.pdf" >>
            ELSE SubSeq(MockSourcesOf(section), 1,
                        IF Len(MockSourcesOf(section)) < 2
                        THEN Len(MockSourcesOf(section)) ELSE 2)
    IN  IF kind = "generic" /\ site_id \notin DOMAIN L.CONSTRUCTION_SITES
        THEN [ L EXCEPT !.stop = "KeyError" ]
        ELSE [ log_action(L, "rag_response_generated",
                   [ sources_count |-> Len(sources), processing_time |-> 2 ], "INFO")
               EXCEPT !.shown =
                   [ body |-> "answer",
                     answer |-> Response(kind, L.CONSTRUCTION_SITES, site_id,
                                         section, query),
                     sources |-> sources ] ]

RECURSIVE ProcessingSteps(_, _, _)
\* the for loop over processing_steps
ProcessingSteps(S, project_id, i) ==
    IF i > 6 THEN S
    ELSE ProcessingSteps(
             log_action(S, "processing_step",
                 [ project_id |-> project_id, step |-> i ], "INFO"),
             project_id, i + 1)

\* process_uploaded_files(uploaded_files, project_name)
process_uploaded_files(S, file_count, project_name) ==
    LET L1 == log_action(S, "file_upload_started",
                  [ project_name |-> project_name, file_count |-> file_count ], "INFO")
        project_id == ProjectIdOf(S.event.hex)
        L2 == ProcessingSteps(L1, project_id, 1)
        L3 == [ L2 EXCEPT !.CONSTRUCTION_SITES =
                   [ k \in DOMAIN L2.CONSTRUCTION_SITES \cup { project_id } |->
                       IF k = project_id
                       THEN [ name |-> project_name, sections |-> ProjectSections ]
                       ELSE L2.CONSTRUCTION_SITES[k] ] ]
    IN  log_action(L3, "project_created",
            [ project_id |-> project_id, project_name |-> project_name,
              files_processed |-> file_count ], "INFO")

(***************************************************************************)
(* Page renderers.                                                         *)
(***************************************************************************)
\* the "Create Project" button and what its click runs
CreateProjectButton(S) ==
    LET B == Button(S, << "create_project" >>)
    IN  IF Clicked(B, << "create_project" >>)
        THEN process_uploaded_files(
                 log_action(B, "create_project_clicked",
                     [ project_name |-> B.event.project_name,
                       file_count |-> B.event.file_count ], "INFO"),
                 B.event.file_count, B.event.project_name)
        ELSE B

\* the project cards, one "Explore Project" button per entry of the dict
ProjectCards(S) ==
    LET B == [ S EXCEPT !.rendered =
                 S.rendered \cup { << "nav", k >> : k \in DOMAIN S.CONSTRUCTION_SITES } ]
    IN  IF \E k \in DOMAIN S.CONSTRUCTION_SITES : Clicked(B, << "nav", k >>)
        THEN [ navigate_to_site(B, B.event.key[2]) EXCEPT !.stop = "rerun" ]
        ELSE B

\* render_sites_overview()
render_sites_overview(S) ==
    LET L == [ log_action(S, "page_view", [ page |-> "sites_overview" ], "INFO")
               EXCEPT !.shown = [ Blank EXCEPT !.body = "overview" ] ]
    IN  Then(CreateProjectButton(L), ProjectCards)

\* "Back to Sites"
BackToSitesButton(S) ==
    LET B == Button(S, << "back_btn" >>)
    IN  IF Clicked(B, << "back_btn" >>)
        THEN [ log_action(B, "navigation_back",
                   [ from |-> "site_detail", to |-> "overview" ], "INFO")
               EXCEPT !.current_site = "None",
                      !.current_page = "overview",
                      !.stop = "rerun" ]
        ELSE B

\* the section list: a button for every section but the current one
SectionButtonsAllSites(S) ==
    LET offered ==
            UNION { { S.CONSTRUCTION_SITES[k].sections[i] :
                        i \in 1..Len(S.CONSTRUCTION_SITES[k].sections) } :
                    k \in DOMAIN S.CONSTRUCTION_SITES } \ { S.current_section }
        B == [ S EXCEPT !.rendered =
                 S.rendered \cup { << "sect", x >> : x \in offered } ]
    IN  IF \E x \in offered : Clicked(B, << "sect", x >>)
        THEN [ navigate_to_section(B, B.event.key[2]) EXCEPT !.stop = "rerun" ]
        ELSE B
SectionButtons(S) ==
    LET sections == S.CONSTRUCTION_SITES[S.current_site].sections
        offered == { sections[i] : i \in 1..Len(sections) } \ { S.current_section }
        B == [ S EXCEPT !.rendered =
                 S.rendered \cup { << "sect", x >> : x \in offered } ]
    IN  IF \E x \in offered : Clicked(B, << "sect", x >>)
        THEN [ navigate_to_section(B, B.event.key[2]) EXCEPT !.stop = "rerun" ]
        ELSE B

\* the content column: the section's markdown, or the placeholder message
SectionContentLogsMiss(S) ==
    IF S.current_section \in SampleSectionsOf(S.current_site)
    THEN [ S EXCEPT !.shown = [ Blank EXCEPT !.body = "markdown" ] ]
    ELSE IF S.current_section = "None"
    THEN [ S EXCEPT !.stop = "AttributeError" ]
    ELSE [ log_action(S, "section_not_found",
               [ section |-> S.current_section ], "ERROR")
           EXCEPT !.shown = [ Blank EXCEPT !.body = "placeholder" ] ]
SectionContent(S) ==
    IF S.current_section \in SampleSectionsOf(S.current_site)
    THEN [ S EXCEPT !.shown = [ Blank EXCEPT !.body = "markdown" ] ]
    ELSE IF S.current_section = "None"
    THEN [ S EXCEPT !.stop = "AttributeError" ]
    ELSE [ S EXCEPT !.shown = [ Blank EXCEPT !.body = "placeholder" ] ]

\* the question box and the "Ask" button
AskButton(S) ==
    LET B == Button(S, << "ask_btn" >>)
    IN  IF Clicked(B, << "ask_btn" >>) /\ B.event.question # << >>
        THEN LET L == log_action(B, "question_submitted",
                          [ question |-> B.event.question,
                            site_id |-> B.current_site,
                            section |-> B.current_section ], "INFO")
             IN  [ L EXCEPT !.question_answer_id = QaIdOf(B.event.hex),
                            !.qa_issued = L.qa_issued \cup { QaIdOf(B.event.hex) },
                            !.current_question = B.event.question,
                            !.current_page = "question_answer",
                            !.stop = "rerun" ]
        ELSE B

\* render_site_detail()
render_site_detail(S) ==
    IF S.current_site \notin DOMAIN S.CONSTRUCTION_SITES
    THEN [ S EXCEPT !.stop = "KeyError" ]
    ELSE LET L == log_action(S, "page_view",
                      [ page |-> "site_detail", site_id |-> S.current_site,
                        section |-> S.current_section ], "INFO")
         IN  Then(Then(Then(BackToSitesButton(L), SectionButtons),
                       SectionContent), AskButton)

\* "Back to Project"
BackToProjectButtonResetSection(S) ==
    LET B == Button(S, << "back_to_project" >>)
    IN  IF Clicked(B, << "back_to_project" >>)
        THEN [ log_action(B, "navigation_back",
                   [ from |-> "question_answer", to |-> "site_detail" ], "INFO")
               EXCEPT !.current_page = "site_detail",
                      !.current_section = "overview",
                      !.stop = "rerun" ]
        ELSE B
BackToProjectButton(S) ==
    LET B == Button(S, << "back_to_project" >>)
    IN  IF Clicked(B, << "back_to_project" >>)
        THEN [ log_action(B, "navigation_back",
                   [ from |-> "question_answer", to |-> "site_detail" ], "INFO")
               EXCEPT !.current_page = "site_detail",
                      !.stop = "rerun" ]
        ELSE B

\* the answer and sources columns
AnswerColumns(S) ==
    mock_rag_query(S, S.current_site, S.current_section, S.current_question)

\* render_question_answer()
render_question_answer(S) ==
    IF S.current_site \notin DOMAIN S.CONSTRUCTION_SITES
    THEN [ S EXCEPT !.stop = "KeyError" ]
    ELSE IF S.current_question = UnsetQuestion
    THEN [ S EXCEPT !.stop = "AttributeError" ]
    ELSE LET L == log_action(S, "page_view",
                      [ page |-> "question_answer", site_id |-> S.current_site,
                        section |-> S.current_section ], "INFO")
         IN  Then(BackToProjectButton(L), AnswerColumns)

\* render_logging_dashboard()
render_logging_dashboard(S) ==
    LET L == [ log_action(S, "page_view", [ page |-> "logging_dashboard" ], "INFO")
               EXCEPT !.shown = [ Blank EXCEPT !.body = "dashboard" ] ]
        B == Button(L, << "export_logs" >>)
    IN  IF Clicked(B, << "export_logs" >>)
        THEN log_action(B, "export_logs", [ exported_count |-> Len(B.logs) ], "INFO")
        ELSE B

(***************************************************************************)
(* main()                                                                  *)
(***************************************************************************)
\* the session id is generated in the first run of the session
SessionStart(S) ==
    IF S.session_id = "unset"
    THEN LET T == [ S EXCEPT !.session_id = SessionIdOf(S.event.hex) ]
         IN  log_action(T, "session_started", [ session_id |-> T.session_id ], "INFO")
    ELSE S

\* "Projects Overview"
NavOverviewKeepSite(S) ==
    LET B == Button(S, << "nav_overview" >>)
    IN  IF Clicked(B, << "nav_overview" >>)
        THEN [ log_action(B, "navigation", [ to |-> "overview" ], "INFO")
               EXCEPT !.current_page = "overview",
                      !.stop = "rerun" ]
        ELSE B
NavOverview(S) ==
    LET B == Button(S, << "nav_overview" >>)
    IN  IF Clicked(B, << "nav_overview" >>)
        THEN [ log_action(B, "navigation", [ to |-> "overview" ], "INFO")
               EXCEPT !.current_page = "overview",
                      !.current_site = "None",
                      !.stop = "rerun" ]
        ELSE B

\* "Logging Dashboard"
NavDashboard(S) ==
    LET B == Button(S, << "nav_logging_dashboard" >>)
    IN  IF Clicked(B, << "nav_logging_dashboard" >>)
        THEN [ log_action(B, "navigation", [ to |-> "logging_dashboard" ], "INFO")
               EXCEPT !.current_page = "logging_dashboard",
                      !.stop = "rerun" ]
        ELSE B

\* the button named after the current site, shown while a site is set
NavSite(S) ==
    IF S.current_site = "None" THEN S
    ELSE IF S.current_site \notin DOMAIN S.CONSTRUCTION_SITES
    THEN [ S EXCEPT !.stop = "KeyError" ]
    ELSE LET B == Button(S, << "nav_site" >>)
         IN  IF Clicked(B, << "nav_site" >>)
             THEN [ log_action(B, "navigation", [ to |-> "site_detail" ], "INFO")
                    EXCEPT !.current_page = "site_detail",
                           !.stop = "rerun" ]
             ELSE B

\* "Q&A", shown while a question_answer_id is set
NavQAAlways(S) ==
    LET B == Button(S, << "nav_qa" >>)
    IN  IF Clicked(B, << "nav_qa" >>)
        THEN [ log_action(B, "navigation", [ to |-> "question_answer" ], "INFO")
               EXCEPT !.current_page = "question_answer",
                      !.stop = "rerun" ]
        ELSE B
NavQA(S) ==
    IF S.question_answer_id = "None" THEN S
    ELSE LET B == Button(S, << "nav_qa" >>)
         IN  IF Clicked(B, << "nav_qa" >>)
             THEN [ log_action(B, "navigation", [ to |-> "question_answer" ], "INFO")
                    EXCEPT !.current_page = "question_answer",
                           !.stop = "rerun" ]
             ELSE B

\* "Route to appropriate page"
Route(S) ==
    IF S.current_page = "overview" THEN render_sites_overview(S)
    ELSE IF S.current_page = "site_detail" THEN render_site_detail(S)
    ELSE IF S.current_page = "question_answer" THEN render_question_answer(S)
    ELSE IF S.current_page = "logging_dashboard" THEN render_logging_dashboard(S)
    ELSE S

\* the script executed top to bottom: the module-level assignments, then main()
ScriptRun(S, ev) ==
    LET fresh == [ S EXCEPT !.CONSTRUCTION_SITES = StaticSites,
                            !.rendered = {},
                            !.shown = Blank,
                            !.event = ev,
                            !.stop = "no" ]
    IN  Then(Then(Then(Then(Then(SessionStart(fresh), NavOverview), NavDashboard),
                       NavSite), NavQA), Route)

(***************************************************************************)
(* The session as a state machine: one step per user event.  A step is the *)
(* script run the event triggers and, when that run calls st.rerun(), the  *)
(* run that follows it at once.                                            *)
(***************************************************************************)
\* widget input of a run in which nothing was clicked
NoEvent == [ key |-> NoKey, hex |-> 0, question |-> << >>,
             project_name |-> "", file_count |-> 0 ]

\* what the user may type into the question box
Questions == { << >>, << "L", "o", "a", "d" >>, << "h", "i" >> }
\* what the user may enter in the create-project form
ProjectNames == { "Tower" }
FileCounts == { 1, 2 }

Cur ==
    [ current_page |-> current_page, current_site |-> current_site,
      current_section |-> current_section, chat_history |-> chat_history,
      logs |-> logs, question_answer_id |-> question_answer_id,
      current_question |-> current_question, session_id |-> session_id,
      CONSTRUCTION_SITES |-> CONSTRUCTION_SITES, sink |-> sink, now |-> now,
      rendered |-> rendered, shown |-> shown, qa_issued |-> qa_issued,
      event |-> event, stop |-> "no" ]

\* the run triggered by ev, then the rerun it asks for
Handle(S, ev) ==
    LET first == ScriptRun(S, ev)
    IN  IF first.stop = "rerun" THEN ScriptRun(first, NoEvent) ELSE first

\* the session variables after the runs that ended in R
Commit(R) ==
    /\ current_page' = R.current_page
    /\ current_site' = R.current_site
    /\ current_section' = R.current_section
    /\ chat_history' = R.chat_history
    /\ logs' = R.logs
    /\ question_answer_id' = R.question_answer_id
    /\ current_question' = R.current_question
    /\ session_id' = R.session_id
    /\ CONSTRUCTION_SITES' = R.CONSTRUCTION_SITES
    /\ sink' = R.sink
    /\ now' = R.now
    /\ rendered' = R.rendered
    /\ shown' = R.shown
    /\ qa_issued' = R.qa_issued
    /\ error' = IF R.stop = "no" THEN "none" ELSE R.stop

UserEvent(ev) ==
    /\ events < MaxEvents
    /\ Commit(Handle(Cur, ev))
    /\ event' = ev
    /\ events' = events + 1
    /\ UNCHANGED << feed, tocVars >>

\* a click on a button that is on the page
Click(key) == UserEvent([ NoEvent EXCEPT !.key = key ])

\* the browser opens the app: the first run of the session
Load ==
    /\ session_id = "unset"
    /\ \E h \in Hex : UserEvent([ NoEvent EXCEPT !.hex = h ])

\* a text box, selectbox or uploader changes: a run with no button clicked
Rerender ==
    /\ session_id # "unset"
    /\ error = "none"
    /\ current_page \in { "overview", "site_detail", "logging_dashboard" }
    /\ UserEvent(NoEvent)

ClickProjectsOverview ==
    /\ << "nav_overview" >> \in rendered
    /\ Click(<< "nav_overview" >>)

ClickLoggingDashboard ==
    /\ << "nav_logging_dashboard" >> \in rendered
    /\ Click(<< "nav_logging_dashboard" >>)

ClickCurrentSite ==
    /\ << "nav_site" >> \in rendered
    /\ Click(<< "nav_site" >>)

ClickQA ==
    /\ << "nav_qa" >> \in rendered
    /\ Click(<< "nav_qa" >>)

ClickExploreProject == \E k \in { r \in rendered : r[1] = "nav" } : Click(k)

ClickCreateProject ==
    /\ << "create_project" >> \in rendered
    /\ \E name \in ProjectNames, n \in FileCounts, h \in Hex :
           UserEvent([ NoEvent EXCEPT !.key = << "create_project" >>, !.hex = h,
                                      !.project_name = name, !.file_count = n ])

ClickBackToSites ==
    /\ << "back_btn" >> \in rendered
    /\ Click(<< "back_btn" >>)

ClickSection == \E k \in { r \in rendered : r[1] = "sect" } : Click(k)

ClickAsk ==
    /\ << "ask_btn" >> \in rendered
    /\ \E q \in Questions, h \in Hex :
           UserEvent([ NoEvent EXCEPT !.key = << "ask_btn" >>, !.hex = h,
                                      !.question = q ])

ClickBackToProject ==
    /\ << "back_to_project" >> \in rendered
    /\ Click(<< "back_to_project" >>)

ClickExportLogs ==
    /\ << "export_logs" >> \in rendered
    /\ Click(<< "export_logs" >>)

\* init_session_state() on an empty st.session_state
InitSession ==
    /\ current_page = "overview"
    /\ current_site = "None"
    /\ current_section = "None"
    /\ chat_history = {}
    /\ logs = << >>
    /\ question_answer_id = "None"
    /\ current_question = UnsetQuestion
    /\ session_id = "unset"
    /\ CONSTRUCTION_SITES = StaticSites
    /\ sink = << >>
    /\ now = 0
    /\ rendered = {}
    /\ error = "none"
    /\ shown = Blank
    /\ event = NoEvent
    /\ events = 0
    /\ qa_issued = {}

Init ==
    /\ InitSession
    /\ feed = << >>
    /\ markdown_content = << >>
    /\ toc = << >>
    /\ pc = "idle"

Next ==
    \/ Load
    \/ Rerender
    \/ ClickProjectsOverview
    \/ ClickLoggingDashboard
    \/ ClickCurrentSite
    \/ ClickQA
    \/ ClickExploreProject
    \/ ClickCreateProject
    \/ ClickBackToSites
    \/ ClickSection
    \/ ClickAsk
    \/ ClickBackToProject
    \/ ClickExportLogs

Spec == Init /\ [][Next]_vars

(***************************************************************************)
(* The logger alone: MaxLogCalls sequential log_action calls whose         *)
(* (action, level) arguments repeat a pattern chosen at the start.         *)
(***************************************************************************)
LogActions == { "page_view", "navigation" }

InitLog ==
    /\ InitSession
    /\ feed \in [ 1..LogPeriod -> LogActions \X Levels ]
    /\ markdown_content = << >>
    /\ toc = << >>
    /\ pc = "idle"

LogCall ==
    /\ now < MaxLogCalls
    /\ LET arg == feed[(now % LogPeriod) + 1]
           R == log_action(Cur, arg[1], [ call |-> now + 1 ], arg[2])
       IN  /\ logs' = R.logs
           /\ sink' = R.sink
           /\ now' = R.now
    /\ UNCHANGED << navVars, feed, tocVars >>

NextLog == LogCall

SpecLog == InitLog /\ [][NextLog]_vars

(***************************************************************************)
(* The extractor alone: one call on a markdown string drawn from Docs.     *)
(***************************************************************************)
DocChars == { "#", " ", "\n", "\t", "a", "B", ",", "&" }

\* "# A", "## B", "### C" on three lines
DocABC ==
    << "#", " ", "A", "\n", "#", "#", " ", "B", "\n", "#", "#", "#", " ", "C" >>
\* "# Foo, Bar & Baz"
DocFooBarBaz ==
    << "#", " ", "F", "o", "o", ",", " ", "B", "a", "r", " ", "&", " ",
       "B", "a", "z" >>
\* text with no heading line
DocPlain == << "a", " ", "#", "\n", " ", "#", "B" >>

Docs ==
    UNION { [ 1..n -> DocChars ] : n \in 0..MaxDocLen }
        \cup { DocABC, DocFooBarBaz, DocPlain }

InitToc ==
    /\ InitSession
    /\ feed = << >>
    /\ markdown_content \in Docs
    /\ toc = << >>
    /\ pc = "ready"

ExtractToc ==
    /\ pc = "ready"
    /\ toc' = extract_table_of_contents(markdown_content)
    /\ pc' = "done"
    /\ UNCHANGED << navVars, logVars, feed, markdown_content >>

NextToc == ExtractToc

SpecToc == InitToc /\ [][NextToc]_vars

(***************************************************************************)
(* Properties of the logger (specification SpecLog).                       *)
(***************************************************************************)
Min(a, b) == IF a < b THEN a ELSE b

\* the entry the driver's k-th call appends
EntryOfCall(k) ==
    [ timestamp |-> k - 1,
      action |-> feed[((k - 1) % LogPeriod) + 1][1],
      details |-> [ call |-> k ],
      level |-> feed[((k - 1) % LogPeriod) + 1][2],
      session_id |-> "unknown" ]

\* C1: after n log_action calls the buffer holds min(n, 100) entries, and they
\* are the entries of the last min(n, 100) calls in call order; after 150 calls
\* it holds exactly the entries of calls 51..150.
C1_LogRetention ==
    /\ Len(logs) = Min(now, 100)
    /\ \A i \in 1..Len(logs) : logs[i] = EntryOfCall(now - Len(logs) + i)
    /\ now = 150 =>
          /\ Len(logs) = 100
          /\ logs[1].details.call = 51
          /\ logs[100].details.call = 150

\* C1 witness: 150 calls have been made and the buffer has been cut
C1_Witness ==
    /\ now = 150
    /\ Len(logs) = 100
    /\ logs[1].timestamp = 50

\* C7: the sink holds a record for every one of the n calls, in call order, and
\* the buffer's entries carry the actions (and levels and details) of the last
\* min(n, 100) records of the sink.
C7_SinkHoldsAll ==
    /\ Len(sink) = now
    /\ \A k \in 1..Len(sink) : sink[k].details.call = k
    /\ Len(logs) = Min(Len(sink), 100)
    /\ \A i \in 1..Len(logs) :
          LET r == sink[Len(sink) - Len(logs) + i]
          IN  /\ logs[i].action = r.action
              /\ logs[i].level = r.level
              /\ logs[i].details = r.details

\* C7 witness: the buffer has dropped entries that the sink still holds, among
\* them one that is not of level INFO
C7_Witness ==
    /\ Len(sink) > 100
    /\ Len(logs) = 100
    /\ sink[1].level # "INFO"
    /\ logs[1].details.call > 1

(***************************************************************************)
(* Properties of the extractor (specification SpecToc).                    *)
(***************************************************************************)
\* the title with commas and ampersands left out, in lower case, and a hyphen
\* for every space
Slug(title) ==
    LET kept == SelectSeq(title, LAMBDA c : c \notin { ",", "&" })
    IN  [ i \in 1..Len(kept) |->
            IF kept[i] = " " THEN "-" ELSE LowerChar(kept[i]) ]

EveryAnchorIsSlug == \A i \in 1..Len(toc) : toc[i][2] = Slug(toc[i][1])

\* C9 as stated: every anchor is its title's slug, and "Foo, Bar & Baz" gets the
\* anchor "foo-bar-baz"
C9_AsStated ==
    pc = "done" =>
        /\ EveryAnchorIsSlug
        /\ markdown_content = DocFooBarBaz =>
              toc[1][2] = << "f", "o", "o", "-", "b", "a", "r", "-", "b", "a", "z" >>

\* C9 amended: every anchor is its title's slug, and "Foo, Bar & Baz" gets the
\* anchor "foo-bar--baz": the two spaces around the ampersand each leave a hyphen
C9_Anchor ==
    pc = "done" =>
        /\ EveryAnchorIsSlug
        /\ markdown_content = DocFooBarBaz =>
              /\ toc[1][1] = SubSeq(DocFooBarBaz, 3, 16)
              /\ toc[1][2] = << "f", "o", "o", "-", "b", "a", "r", "-", "-",
                                "b", "a", "z" >>

\* C9 witness: the extractor has returned the entry of "# Foo, Bar & Baz"
C9_Witness ==
    /\ pc = "done"
    /\ markdown_content = DocFooBarBaz
    /\ Len(toc) = 1
    /\ toc[1][2] = << "f", "o", "o", "-", "b", "a", "r", "-", "-", "b", "a", "z" >>

\* positions of markdown_content at which a line begins with '#', in order
HeadingStarts ==
    { p \in 1..Len(markdown_content) :
        /\ markdown_content[p] = "#"
        /\ p = 1 \/ markdown_content[p - 1] = "\n" }

\* the k-th smallest member of a set of numbers
Kth(set, k) == CHOOSE p \in set : Cardinality({ q \in set : q < p }) = k - 1

\* last position of the line that begins at p
LineEnd(p) ==
    LET breaks == { q \in p..Len(markdown_content) : markdown_content[q] = "\n" }
    IN  IF breaks = {} THEN Len(markdown_content)
        ELSE (CHOOSE q \in breaks : \A r \in breaks : q <= r) - 1

\* number of '#' characters at the start of the line that begins at p
LeadingHashes(p) ==
    Cardinality({ q \in p..LineEnd(p) :
                    \A r \in p..q : markdown_content[r] = "#" })

\* the line from p without its leading '#'/space characters and then without the
\* whitespace around what is left
TitleAt(p) ==
    LET e == LineEnd(p)
        afterMarks == { q \in p..e : markdown_content[q] \notin { "#", " " } }
        a == IF afterMarks = {} THEN e + 1
             ELSE CHOOSE q \in afterMarks : \A r \in afterMarks : q <= r
        inked == { q \in a..e : markdown_content[q] \notin Whitespace }
    IN  IF inked = {} THEN << >>
        ELSE SubSeq(markdown_content,
                    CHOOSE q \in inked : \A r \in inked : q <= r,
                    CHOOSE q \in inked : \A r \in inked : q >= r)

\* C10: the extractor returns one triple per line that begins with '#', in
\* document order; its depth is the number of leading '#' characters and its
\* title is the rest of the line stripped of leading '#'/space characters and of
\* surrounding whitespace; a text with no heading line gives the empty sequence;
\* "# A", "## B", "### C" give ("A","a",1), ("B","b",2), ("C","c",3).
C10_TocTriples ==
    pc = "done" =>
        /\ Len(toc) = Cardinality(HeadingStarts)
        /\ \A k \in 1..Len(toc) :
              /\ Len(toc[k]) = 3
              /\ toc[k][1] = TitleAt(Kth(HeadingStarts, k))
              /\ toc[k][3] = LeadingHashes(Kth(HeadingStarts, k))
        /\ HeadingStarts = {} => toc = << >>
        /\ markdown_content = DocABC =>
              toc = << << << "A" >>, << "a" >>, 1 >>,
                       << << "B" >>, << "b" >>, 2 >>,
                       << << "C" >>, << "c" >>, 3 >> >>

\* C10 witness: the extractor has returned the three triples of the example
C10_Witness ==
    /\ pc = "done"
    /\ markdown_content = DocABC
    /\ Len(toc) = 3
    /\ toc[3] = << << "C" >>, << "c" >>, 3 >>

(***************************************************************************)
(* Properties of the session (specification Spec).                         *)
(***************************************************************************)
\* the step handles a user event
Handled == events' = events + 1

\* the records the step wrote to the sink
NewRecords == { sink'[i] : i \in (Len(sink) + 1)..Len(sink') }

\* C2: whatever the user does, the run that renders the current page completes:
\* no lookup on CONSTRUCTION_SITES, SAMPLE_SECTIONS or MOCK_SOURCES raises, and
\* the page body is one the renderers produce.
C2_NoLookupFailure ==
    /\ error = "none"
    /\ session_id # "unset" =>
          shown.body \in { "overview", "markdown", "placeholder", "answer",
                           "dashboard" }

\* C3: a non-empty question submitted with "Ask" leaves current_page =
\* "question_answer" and a question_answer_id that is set and was given to no
\* earlier question of the session.
C3_FreshQaId ==
    [][ (Handled /\ event'.key = << "ask_btn" >> /\ event'.question # << >>) =>
            /\ current_page = "site_detail"
            /\ current_page' = "question_answer"
            /\ question_answer_id' # "None"
            /\ question_answer_id' \notin qa_issued ]_vars

\* C4: "Explore Project" runs navigate_to_site only from the overview page, and
\* the step that runs it for site s ends with current_page = "site_detail",
\* current_site = s and current_section = "overview", whatever the section was.
C4_NavigateToSite ==
    [][ /\ \A s \in DOMAIN StaticSites :
              (Handled /\ event'.key = << "nav", s >>) =>
                  /\ \E r \in NewRecords :
                        r.action = "navigate_to_site" /\ r.details.site_id = s
                  /\ current_page = "overview"
        /\ \A r \in NewRecords :
              r.action = "navigate_to_site" =>
                  /\ event'.key = << "nav", r.details.site_id >>
                  /\ r.details.previous_page = "overview"
                  /\ current_page' = "site_detail"
                  /\ current_site' = r.details.site_id
                  /\ current_section' = "overview"
                  /\ error' = "none" ]_vars

\* C4 witness: a site has been selected after a section other than "overview"
\* had been current for another site
C4_Witness ==
    /\ event.key = << "nav", "office_complex" >>
    /\ \E i \in 1..Len(sink) :
          /\ sink[i].action = "navigate_to_section"
          /\ sink[i].details.site_id = "harbor_bridge"
          /\ sink[i].details.section = "structural_plans"
    /\ current_page = "site_detail"
    /\ current_site = "office_complex"
    /\ current_section = "overview"

\* C5: the step that selects a section sets current_section to it and leaves
\* current_page at "site_detail" and current_site, the pending question, the
\* pending question_answer_id and the chat history as they were.
C5_NavigateToSection ==
    [][ (Handled /\ Len(event'.key) = 2 /\ event'.key[1] = "sect") =>
            /\ \E r \in NewRecords : r.action = "navigate_to_section"
            /\ current_section' = event'.key[2]
            /\ current_section' # current_section
            /\ current_page = "site_detail"
            /\ current_page' = "site_detail"
            /\ current_site' = current_site
            /\ current_question' = current_question
            /\ question_answer_id' = question_answer_id
            /\ chat_history' = chat_history ]_vars

\* C5 witness: a section has been selected while a question is pending
C5_Witness ==
    /\ Len(event.key) = 2
    /\ event.key[1] = "sect"
    /\ current_section = event.key[2]
    /\ current_page = "site_detail"
    /\ question_answer_id # "None"
    /\ current_question # UnsetQuestion

\* C6: the session starts on the overview page; once the app is loaded every
\* state, a failed render included, offers "Projects Overview"; and the step
\* that clicks it ends on a rendered overview page with current_site cleared.
C6_OverviewFromAnywhere ==
    /\ current_page = "overview"
    /\ [](events = 0 => current_page = "overview" /\ current_site = "None")
    /\ [](session_id # "unset" => << "nav_overview" >> \in rendered)
    /\ [][ (Handled /\ event'.key = << "nav_overview" >>) =>
               /\ current_page' = "overview"
               /\ current_site' = "None"
               /\ error' = "none"
               /\ shown'.body = "overview" ]_vars

\* C6 witness: "Projects Overview" has been clicked on the Q&A page of a site
C6_Witness ==
    /\ event.key = << "nav_overview" >>
    /\ question_answer_id # "None"
    /\ \E i \in 1..Len(sink) :
          /\ sink[i].action = "rag_response_generated"
          /\ sink[i + 1].action = "navigation"
    /\ current_page = "overview"
    /\ current_site = "None"

\* C8: a site that is in CONSTRUCTION_SITES, from the start or appended by
\* process_uploaded_files, is in it in every later state.
C8_SitesNeverDeleted ==
    [][ \A k \in DOMAIN CONSTRUCTION_SITES :
            k \in DOMAIN CONSTRUCTION_SITES' ]_vars

(***************************************************************************)
(* The mock answer selector alone: the call render_question_answer makes,  *)
(* in a session on the Q&A page of any site and section with any pending   *)
(* question drawn from Queries.                                            *)
(***************************************************************************)
MaxQueryLen == 4     \* longest enumerated query

QueryChars == { "l", "L", "o", "a", "A", "d" }

\* "load safety"
QueryLoadSafety ==
    << "l", "o", "a", "d", " ", "s", "a", "f", "e", "t", "y" >>
\* "safety of the LoAd"
QuerySafetyLoad ==
    << "s", "a", "f", "e", "t", "y", " ", "o", "f", " ", "t", "h", "e", " ",
       "L", "o", "A", "d" >>
\* "safety"
QuerySafety == << "s", "a", "f", "e", "t", "y" >>
\* "capacity"
QueryCapacity == << "c", "a", "p", "a", "c", "i", "t", "y" >>

Queries ==
    UNION { [ 1..n -> QueryChars ] : n \in 0..MaxQueryLen }
        \cup { QueryLoadSafety, QuerySafetyLoad, QuerySafety, QueryCapacity }

InitRag ==
    /\ current_page = "question_answer"
    /\ current_site \in DOMAIN StaticSites
    /\ current_section \in
          { StaticSites[current_site].sections[i] :
              i \in 1..Len(StaticSites[current_site].sections) }
    /\ chat_history = {}
    /\ logs = << >>
    /\ question_answer_id = QaIdOf(1)
    /\ current_question \in Queries
    /\ session_id = SessionIdOf(1)
    /\ CONSTRUCTION_SITES = StaticSites
    /\ sink = << >>
    /\ now = 0
    /\ rendered = {}
    /\ error = "none"
    /\ shown = Blank
    /\ event = NoEvent
    /\ events = 0
    /\ qa_issued = { QaIdOf(1) }
    /\ feed = << >>
    /\ markdown_content = << >>
    /\ toc = << >>
    /\ pc = "asked"

\* answer, sources = mock_rag_query(site_id, section, question)
RagCall ==
    /\ pc = "asked"
    /\ LET R == mock_rag_query(Cur, current_site, current_section,
                               current_question)
       IN  /\ logs' = R.logs
           /\ sink' = R.sink
           /\ now' = R.now
           /\ shown' = R.shown
           /\ error' = IF R.stop = "no" THEN "none" ELSE R.stop
    /\ pc' = "answered"
    /\ UNCHANGED << current_page, current_site, current_section, chat_history,
                    question_answer_id, current_question, session_id,
                    CONSTRUCTION_SITES, rendered, event, events, qa_issued,
                    feed, markdown_content, toc >>

NextRag == RagCall

SpecRag == InitRag /\ [][NextRag]_vars

\* the query holds the letters l, o, a, d in a row, each in either case
HasLoadAnyCase(query) ==
    \E i \in 1..(Len(query) - 3) :
        /\ query[i] \in { "l", "L" }
        /\ query[i + 1] \in { "o", "O" }
        /\ query[i + 2] \in { "a", "A" }
        /\ query[i + 3] \in { "d", "D" }

\* C11: for every site, section and query, a query that contains "load" in any
\* letter case gets the fixed load-specification answer, whatever else the query
\* holds ("safety" included) and whatever the site and section are.
C11_LoadAnswerFixed ==
    (pc = "answered" /\ HasLoadAnyCase(current_question)) =>
        /\ error = "none"
        /\ shown.body = "answer"
        /\ shown.answer = [ text |-> "load specification answer" ]

\* C11 witness: a query with "safety" and a mixed-case "LoAd" has been answered
\* for the office complex
C11_Witness ==
    /\ pc = "answered"
    /\ current_question = QuerySafetyLoad
    /\ current_site = "office_complex"
    /\ current_section = "hvac"
    /\ shown.answer = [ text |-> "load specification answer" ]

(***************************************************************************)
(* Further properties of the session (specification Spec).                 *)
(***************************************************************************)
\* C12: no entry of severity ERROR is emitted: in every state reached through
\* the navigation, question, upload and export flows, no entry of the buffer
\* and no record of the sink has level ERROR.
C12_NoErrorLevel ==
    /\ \A i \in 1..Len(logs) : logs[i].level # "ERROR"
    /\ \A i \in 1..Len(sink) : sink[i].level # "ERROR"

\* C12 witness: a section without documentation has been shown as the
\* placeholder after a question was answered, and the runs have logged
C12_Witness ==
    /\ shown.body = "placeholder"
    /\ \E i \in 1..Len(logs) : logs[i].action = "rag_response_generated"
    /\ \A i \in 1..Len(logs) : logs[i].level = "INFO"

\* C13: "Back to Project" is clicked on the question_answer page and leaves
\* current_page = "site_detail" with current_site and current_section as they
\* were; "Back to Sites" is clicked on the site_detail page and leaves
\* current_page = "overview" with current_site cleared.
C13_BackTargets ==
    [][ /\ (Handled /\ event'.key = << "back_to_project" >>) =>
              /\ current_page = "question_answer"
              /\ current_page' = "site_detail"
              /\ current_site' = current_site
              /\ current_section' = current_section
              /\ error' = "none"
        /\ (Handled /\ event'.key = << "back_btn" >>) =>
              /\ current_page = "site_detail"
              /\ current_page' = "overview"
              /\ current_site' = "None"
              /\ error' = "none" ]_vars

\* C13 witness: "Back to Project" has returned to a section other than
\* "overview" of the site the question was asked about
C13_Witness ==
    /\ event.key = << "back_to_project" >>
    /\ current_page = "site_detail"
    /\ current_site = "harbor_bridge"
    /\ current_section = "structural_plans"

\* number of entries of a log with the given action
CountAction(log, action) ==
    Cardinality({ i \in 1..Len(log) : log[i].action = action })

\* C14: a call of mock_rag_query appends a "rag_query" entry and then a
\* "rag_response_generated" entry with nothing between them: between steps
\* every "rag_query" entry of the buffer and of the sink is directly followed by
\* a "rag_response_generated" entry, and there are as many of one as of the
\* other.
C14_QueryThenResponse ==
    /\ \A i \in 1..Len(logs) :
          logs[i].action = "rag_query" =>
              /\ i < Len(logs)
              /\ logs[i + 1].action = "rag_response_generated"
              /\ logs[i + 1].timestamp = logs[i].timestamp + 1
    /\ \A i \in 1..Len(sink) :
          sink[i].action = "rag_response_generated" =>
              /\ i > 1
              /\ sink[i - 1].action = "rag_query"
    /\ CountAction(sink, "rag_query") = CountAction(sink, "rag_response_generated")
    /\ shown.body = "answer" => CountAction(sink, "rag_query") > 0

\* C14 witness: the Q&A page has been rendered twice, each render with its pair
C14_Witness ==
    /\ shown.body = "answer"
    /\ CountAction(logs, "rag_query") = 2
    /\ CountAction(logs, "rag_response_generated") = 2
    /\ logs[Len(logs)].action = "rag_response_generated"
    /\ logs[Len(logs) - 1].action = "rag_query"

\* C15: whenever current_site is set, it is a key of CONSTRUCTION_SITES and
\* current_section is one of the section identifiers listed for it.
C15_SectionOfCurrentSite ==
    current_site # "None" =>
        /\ current_site \in DOMAIN CONSTRUCTION_SITES
        /\ \E i \in 1..Len(CONSTRUCTION_SITES[current_site].sections) :
              CONSTRUCTION_SITES[current_site].sections[i] = current_section

\* C15 witness: the office complex is current after a section that only the
\* harbor bridge has had been selected there
C15_Witness ==
    /\ current_site = "office_complex"
    /\ current_section = "overview"
    /\ \E i \in 1..Len(sink) :
          /\ sink[i].action = "navigate_to_section"
          /\ sink[i].details.section = "safety_protocols"
    /\ \E i \in 1..Len(sink) :
          /\ sink[i].action = "navigate_to_site"
          /\ sink[i].details.site_id = "office_complex"

\* C16: on the question_answer page a question_answer_id is set and a non-empty
\* question text is pending, and no run fails reading current_question.
C16_QuestionPendingOnQaPage ==
    /\ current_page = "question_answer" =>
          /\ question_answer_id # "None"
          /\ current_question # UnsetQuestion
          /\ current_question # << >>
    /\ error # "AttributeError"

\* C16 witness: the Q&A page has been entered through the "Q&A" navigation
\* button and has rendered the answer to the pending question
C16_Witness ==
    /\ event.key = << "nav_qa" >>
    /\ current_page = "question_answer"
    /\ error = "none"
    /\ shown.body = "answer"
    /\ question_answer_id \in qa_issued

====
